---- MODULE Spec2Model ----
(***************************************************************************)
(* A model of typescript-quickcheck: the seeded PRNG (src/src/generator.ts *)
(* makeRng / randomInt32), the Generator combinators built on it, and the  *)
(* shrink strategies of the Arbitrary module (namespace `smaller`).        *)
(*                                                                         *)
(* Numbers.  An Int32Array slot is a signed 32-bit integer, which is what  *)
(* a TLC integer is; sums and differences are computed on 16-bit halves so *)
(* that they wrap modulo 2^32 exactly as the typed array does.  A number   *)
(* in [2^31, 2^32) (an output of `nat`, the operand of `%` in `interval`)  *)
(* is kept as its two unsigned 16-bit halves hi, lo.                       *)
(***************************************************************************)
EXTENDS Integers, Sequences, FiniteSets, TLC

VARIABLES
    rng,        \* RngState of the run (an Int32Array of 4 words)
    rngB,       \* RngState of a second run seeded with the same seed
    hist,       \* the generate calls made on rng: generator, size, outcome of each
    histB,      \* the same calls as the second run has made them on rngB so far
    shr,        \* runner's shrinking loop: arbitrary, failing value, candidates of its shrink
    st,         \* a suchThat call in progress: generator, predicate, attempts, position
    rec         \* a recursive call in progress: size, depth counter, generator built, position

vars == <<rng, rngB, hist, histB, shr, st, rec>>

----------------------------------------------------------------------------
(* Bounds of the model *)

\* seeds 0 .. MaxSeed are tried
MaxSeed == 5
\* interval(min, max) is called for -MaxBound <= min < max <= MaxBound
MaxBound == 3
\* sizes 0 .. MaxSize are passed, and no size at all
MaxSize == 7
\* the arrays given to elements and shuffle have at most MaxLen elements
MaxLen == 4
\* each of the two identically seeded runs makes at most MaxCalls generate calls
MaxCalls == 2
\* a suchThat loop is followed for at most MaxAttempts draws
MaxAttempts == 6

----------------------------------------------------------------------------
(* Evaluation order *)

\* F applied to the value of v, with v computed once and before F.  Statements
\* of the source that store a result in a local and go on from it are written
\* with it (TLC may evaluate a LET definition again at each use).
With(v, F(_)) == CHOOSE y \in {F(x) : x \in {v}} : TRUE

----------------------------------------------------------------------------
(* 32-bit words *)

TwoPow16 == 65536
TwoPow15 == 32768

\* unsigned upper and lower 16 bits of a signed 32-bit word
Hi(w) == (w \div TwoPow16) % TwoPow16
Lo(w) == w % TwoPow16

\* the signed 32-bit word with the given unsigned halves (what an Int32Array stores)
Word(hi, lo) ==
    IF hi >= TwoPow15 THEN (hi - TwoPow16) * TwoPow16 + lo ELSE hi * TwoPow16 + lo

\* bit i of an unsigned 16-bit half
Bit(a, i) == (a \div (2^i)) % 2

\* bit i of a ^ b and of a | b, in place
XorBit(a, b, i) == IF Bit(a, i) # Bit(b, i) THEN 2^i ELSE 0
OrBit(a, b, i) == IF Bit(a, i) = 1 \/ Bit(b, i) = 1 THEN 2^i ELSE 0

\* a ^ b and a | b on unsigned 16-bit halves, bit by bit
Xor16(a, b) ==
    (((XorBit(a, b, 0) + XorBit(a, b, 1)) + (XorBit(a, b, 2) + XorBit(a, b, 3)))
     + ((XorBit(a, b, 4) + XorBit(a, b, 5)) + (XorBit(a, b, 6) + XorBit(a, b, 7))))
    + (((XorBit(a, b, 8) + XorBit(a, b, 9)) + (XorBit(a, b, 10) + XorBit(a, b, 11)))
       + ((XorBit(a, b, 12) + XorBit(a, b, 13)) + (XorBit(a, b, 14) + XorBit(a, b, 15))))

Or16(a, b) ==
    (((OrBit(a, b, 0) + OrBit(a, b, 1)) + (OrBit(a, b, 2) + OrBit(a, b, 3)))
     + ((OrBit(a, b, 4) + OrBit(a, b, 5)) + (OrBit(a, b, 6) + OrBit(a, b, 7))))
    + (((OrBit(a, b, 8) + OrBit(a, b, 9)) + (OrBit(a, b, 10) + OrBit(a, b, 11)))
       + ((OrBit(a, b, 12) + OrBit(a, b, 13)) + (OrBit(a, b, 14) + OrBit(a, b, 15))))

\* a ^ b and a | b on int32
BitXor(a, b) == Word(Xor16(Hi(a), Hi(b)), Xor16(Lo(a), Lo(b)))
BitOr(a, b) == Word(Or16(Hi(a), Hi(b)), Or16(Lo(a), Lo(b)))

\* a << k on int32, 0 <= k < 32
Shl(a, k) ==
    IF k >= 16 THEN Word((Lo(a) * (2^(k - 16))) % TwoPow16, 0)
    ELSE Word(((Hi(a) * (2^k)) + ((Lo(a) * (2^k)) \div TwoPow16)) % TwoPow16,
              (Lo(a) * (2^k)) % TwoPow16)

\* a >>> k, 0 < k < 32 (the result is below 2^31, so it is its own int32)
UShr(a, k) ==
    IF k >= 16 THEN Word(0, Hi(a) \div (2^(k - 16)))
    ELSE Word(Hi(a) \div (2^k), (Lo(a) \div (2^k)) + ((Hi(a) % (2^k)) * (2^(16 - k))))

\* a + b and a - b as stored back into an Int32Array (wrapping modulo 2^32)
Add32(a, b) ==
    LET lo == Lo(a) + Lo(b)
        hi == Hi(a) + Hi(b) + (lo \div TwoPow16)
    IN  Word(hi % TwoPow16, lo % TwoPow16)

Sub32(a, b) ==
    LET lo == Lo(a) - Lo(b)
        hi == (Hi(a) - Hi(b)) + (lo \div TwoPow16)
    IN  Word(hi % TwoPow16, lo % TwoPow16)

----------------------------------------------------------------------------
(* PRNG *)

\* randomInt32: one round on the 4-word state; the value returned is word 4 of
\* the new state.  e is a double in the source and is only ever added into
\* Int32Array slots, so it is kept modulo 2^32 here.
randomInt32(r) ==
    With(Sub32(r[1], BitOr(Shl(r[2], 27), UShr(r[2], 32 - 27))), LAMBDA e :
    With(BitXor(r[2], BitOr(Shl(r[3], 17), UShr(r[3], 32 - 17))), LAMBDA r0 :
         <<r0, Add32(r[3], r[4]), Add32(r[4], e), Add32(e, r0)>>))

\* for (i = 0; i < 20; i++) randomInt32(rng), i rounds left
RECURSIVE Warm(_, _)
Warm(r, i) ==
    IF i = 0 THEN r ELSE With(randomInt32(r), LAMBDA n : Warm(n, i - 1))

\* 0xf1ea5eed stored into an Int32Array
SeedWord0 == -236298515

WarmupRounds == 20

\* makeRng(seed) for a given 32-bit seed
makeRng(seed) == Warm(<<SeedWord0, seed, seed, seed>>, WarmupRounds)

----------------------------------------------------------------------------
(* JavaScript values *)

Num(n) == [t |-> "number", n |-> n]
NaN == [t |-> "NaN"]
Undefined == [t |-> "undefined"]
Bool(b) == [t |-> "boolean", b |-> b]
Str(cs) == [t |-> "string", s |-> cs]
Arr(xs) == [t |-> "array", a |-> xs]
\* the number hi * 2^16 + lo in [0, 2^32): a number from 2^31 on is kept by its
\* unsigned 16-bit halves
Number(hi, lo) ==
    IF hi < TwoPow15 THEN Num(hi * TwoPow16 + lo)
    ELSE [t |-> "number", hi |-> hi, lo |-> lo]

\* the outcome of a generate call: the value returned (or the error thrown), the
\* RngState it leaves, and the array indices it used
Ok(v, r) == [val |-> v, rng |-> r, thrown |-> FALSE, idx |-> <<>>]
Throw(e, r) == [val |-> [t |-> e], rng |-> r, thrown |-> TRUE, idx |-> <<>>]

\* array[i] and array[i] = v, 0-based: a read outside the array is undefined, a
\* write outside it grows the array
Get(xs, i) == IF 0 <= i /\ i < Len(xs) THEN xs[i + 1] ELSE Undefined
Put(xs, i, v) ==
    IF i < 0 THEN xs
    ELSE [k \in 1 .. (IF i < Len(xs) THEN Len(xs) ELSE i + 1) |->
             IF k = i + 1 THEN v ELSE IF k <= Len(xs) THEN xs[k] ELSE Undefined]

----------------------------------------------------------------------------
(* Size scaling *)

DefaultSize == 100

\* logsize(size) = max(round(log2(size + 1)), 0) for 0 <= size < 23170: the k
\* with 2^(k - 1/2) <= size + 1 < 2^(k + 1/2), compared on the squares
logsize(size) ==
    LET n == size + 1
    IN  CHOOSE k \in 0 .. 14 :
            /\ (k = 0 \/ n * n >= 2^(2 * k - 1))
            /\ n * n < 2^(2 * k + 1)

\* a size parameter is <<>> when the caller gave none, <<n>> otherwise
SizeOr(size, default) == IF size = <<>> THEN default ELSE size[1]

----------------------------------------------------------------------------
(* Primitives *)

\* randomInt32(rng) + 2147483648, in [0, 2^32): the top bit flipped
ToUnsigned(w) == <<(Hi(w) + TwoPow15) % TwoPow16, Lo(w)>>

\* u % m for u = <<hi, lo>> in [0, 2^32) and 0 < m <= 2^15
UMod(u, m) == (((u[1] % m) * (TwoPow16 % m)) + u[2]) % m

Abs(n) == IF n < 0 THEN 0 - n ELSE n

\* interval as it would be with the right end included: % (magnitude + 1)
IntervalInclusive(min, max, r) ==
    LET magnitude == max - min
    IN  With(randomInt32(r), LAMBDA r1 :
             Ok(Num(UMod(ToUnsigned(r1[4]), Abs(magnitude) + 1) + min), r1))

\* interval(min, max): ((randomInt32(rng) + 2147483648) % magnitude) + min.  The
\* remainder by 0 is NaN; a remainder has the sign of its (non-negative) dividend.
Interval(min, max, r) ==
    LET magnitude == max - min
    IN  With(randomInt32(r), LAMBDA r1 :
             IF magnitude = 0 THEN Ok(NaN, r1)
             ELSE Ok(Num(UMod(ToUnsigned(r1[4]), Abs(magnitude)) + min), r1))

----------------------------------------------------------------------------
(* Generators: what the constructors of the library build *)

int == [k |-> "int"]
nat == [k |-> "nat"]
of(a) == [k |-> "of", a |-> a]
interval(min, max) == [k |-> "interval", min |-> min, max |-> max]
map(g, f) == [k |-> "map", gen |-> g, f |-> f]
chain(g, f) == [k |-> "chain", gen |-> g, f |-> f]
sized(g, size) == [k |-> "sized", gen |-> g, size |-> size]
ntimes(g, n) == [k |-> "ntimes", gen |-> g, n |-> n]
array(g) == [k |-> "array", gen |-> g]
nearray(g) == [k |-> "nearray", gen |-> g]
elements(elems) == [k |-> "elements", elems |-> elems]
shuffle(xs) == [k |-> "shuffle", array |-> xs]

boolean == map(interval(0, 2), "x !== 0")
ascii == map(array(interval(32, 127)), "fromCharCode")
neascii == map(nearray(interval(32, 127)), "fromCharCode")
\* this.or(that): boolean.chain(chance => chance ? this : that)
or(this, that) == chain(boolean, [this |-> this, that |-> that])

\* the functions given to map: x => x !== 0, and
\* chars => String.fromCharCode.apply(undefined, chars)
Apply(f, v) ==
    CASE f = "x !== 0" -> Bool(v # Num(0))
      [] f = "fromCharCode" -> Str([c \in DOMAIN v.a |-> v.a[c].n])

\* the function given to chain by `or`: chance => chance ? this : that
Bind(f, v) == IF v.b THEN f.this ELSE f.that

RECURSIVE Run(_, _, _, _)
RECURSIVE Fill(_, _, _, _, _, _)
RECURSIVE ShuffleLoop(_, _, _, _, _)

\* Generator.generate as it would be if it reseeded on every call
GenerateReseeding(g, r, size, entropy) == Run(g, makeRng(entropy), size, entropy)

\* Generator.generate(rng, size): this._generate(rng || makeRng(<Math.random>), size);
\* entropy is the seed Math.random() gives when the call is made without an RngState
Generate(g, r, size, entropy) ==
    Run(g, IF r = <<>> THEN makeRng(entropy) ELSE r, size, entropy)

\* for (i = 0; i < n; i++) output[i] = gen.generate(rng, size), n draws left
Fill(g, size, output, r, n, entropy) ==
    IF n <= 0 THEN Ok(Arr(output), r)
    ELSE With(Generate(g, r, size, entropy), LAMBDA x :
              IF x.thrown THEN x
              ELSE With(Append(output, x.val), LAMBDA pushed :
                        Fill(g, size, pushed, x.rng, n - 1, entropy)))

\* the loop of shuffle as it would be with j drawn from interval(0, length - i + 1)
RECURSIVE ShuffleLoopPastEnd(_, _, _, _, _)
ShuffleLoopPastEnd(output, i, r, idx, entropy) ==
    IF ~(i < Len(output) - 1) THEN [Ok(Arr(output), r) EXCEPT !.idx = idx]
    ELSE With(Generate(interval(0, Len(output) - i + 1), r, <<>>, entropy), LAMBDA x :
              LET j == x.val.n
                  tmp == Get(output, i)
              IN  With(<<Put(Put(output, i, Get(output, i + j)), i + j, tmp),
                         idx \o <<i, i + j>>>>, LAMBDA swapped :
                       ShuffleLoopPastEnd(swapped[1], i + 1, x.rng, swapped[2], entropy)))

\* the loop of shuffle from index i on, idx the positions swapped so far
ShuffleLoop(output, i, r, idx, entropy) ==
    IF ~(i < Len(output) - 1) THEN [Ok(Arr(output), r) EXCEPT !.idx = idx]
    ELSE With(Generate(interval(0, Len(output) - i), r, <<>>, entropy), LAMBDA x :
              LET j == x.val.n
                  tmp == Get(output, i)
              IN  With(<<Put(Put(output, i, Get(output, i + j)), i + j, tmp),
                         idx \o <<i, i + j>>>>, LAMBDA swapped :
                       ShuffleLoop(swapped[1], i + 1, x.rng, swapped[2], entropy)))

\* array(gen) and nearray(gen) once the length generator is built
ArrayOf(g, lengthGen, r, size, entropy) ==
    With(Generate(lengthGen, r, <<>>, entropy), LAMBDA length :
         IF length.val = NaN THEN Throw("RangeError", length.rng)  \* new Array(NaN)
         ELSE Fill(g, <<size>>, <<>>, length.rng, length.val.n, entropy))

\* elements(elems): elems[indexGen.generate(rng)]
Elements(elems, r, entropy) ==
    With(Generate(interval(0, Len(elems)), r, <<>>, entropy), LAMBDA x :
         IF x.val = NaN THEN Ok(Undefined, x.rng)
         ELSE [Ok(Get(elems, x.val.n), x.rng) EXCEPT !.idx = <<x.val.n>>])

\* the _generate function of each generator
Run(g, r, size, entropy) ==
    CASE g.k = "of" -> Ok(g.a, r)
      [] g.k = "int" -> With(randomInt32(r), LAMBDA r1 : Ok(Num(r1[4]), r1))
      [] g.k = "nat" ->
            With(randomInt32(r), LAMBDA r1 :
                 Ok(Number(ToUnsigned(r1[4])[1], ToUnsigned(r1[4])[2]), r1))
      [] g.k = "interval" -> Interval(g.min, g.max, r)
      [] g.k = "map" ->
            With(Generate(g.gen, r, size, entropy), LAMBDA x :
                 IF x.thrown THEN x ELSE [x EXCEPT !.val = Apply(g.f, x.val)])
      [] g.k = "chain" ->
            With(Generate(g.gen, r, size, entropy), LAMBDA x :
                 IF x.thrown THEN x ELSE Generate(Bind(g.f, x.val), x.rng, size, entropy))
      [] g.k = "sized" -> Generate(g.gen, r, <<g.size>>, entropy)
      [] g.k = "ntimes" -> Fill(g.gen, size, <<>>, r, g.n, entropy)
      [] g.k = "array" ->
            LET s == SizeOr(size, DefaultSize)
            IN  ArrayOf(g.gen, interval(0, logsize(s)), r, s, entropy)
      [] g.k = "nearray" ->
            LET s == SizeOr(size, DefaultSize)
            IN  ArrayOf(g.gen, interval(1, logsize(s) + 1), r, s, entropy)
      [] g.k = "elements" -> Elements(g.elems, r, entropy)
      [] g.k = "shuffle" -> ShuffleLoop(g.array, 0, r, <<>>, entropy)

----------------------------------------------------------------------------
(* A single generate call on a freshly seeded state *)

Seeds == 0 .. MaxSeed
NoSize == <<>>
Sizes == {NoSize} \cup {<<s>> : s \in 0 .. MaxSize}
Idle == [pos |-> "idle"]

Items == {Num(1), Num(2)}
Lists == UNION {[1 .. n -> Items] : n \in 0 .. MaxLen}

Intervals ==
    {interval(min, max) : min \in (0 - MaxBound) .. MaxBound, max \in (0 - MaxBound) .. MaxBound}
    \cup {interval(32, 127), interval(0 - TwoPow15, 0), interval(0 - 1, TwoPow15 - 1)}

\* the calls made: <<generator, size>>
Calls ==
    ({g \in Intervals : g.min < g.max} \X {NoSize})
    \cup ({array(interval(32, 127)), nearray(interval(32, 127)), array(boolean), ascii, neascii}
          \X Sizes)
    \cup ({elements(xs) : xs \in Lists} \X {NoSize})
    \cup ({shuffle(xs) : xs \in Lists} \X {NoSize})

InitCall ==
    /\ \E seed \in Seeds : rng = makeRng(seed)
    /\ rngB = <<>>
    /\ hist = <<>>
    /\ histB = <<>>
    /\ shr = Idle
    /\ st = Idle
    /\ rec = Idle

\* g.generate(rng, size)
Call ==
    /\ hist = <<>>
    /\ \E c \in Calls, e \in Seeds :
          \E x \in {Generate(c[1], rng, c[2], e)} :
              /\ rng' = x.rng
              /\ hist' = <<[gen |-> c[1], size |-> c[2], out |-> x]>>
    /\ UNCHANGED <<rngB, histB, shr, st, rec>>

NextCall == Call

SpecCall == InitCall /\ [][NextCall]_vars

----------------------------------------------------------------------------
(* Properties of a single call *)

\* the calls made so far whose generator is of kind k
CallsOf(k) == {i \in DOMAIN hist : hist[i].gen.k = k}

\* how often v occurs in the sequence xs
Count(xs, v) == Cardinality({i \in DOMAIN xs : xs[i] = v})

SameMultiset(xs, ys) ==
    /\ Len(xs) = Len(ys)
    /\ \A i \in DOMAIN xs : Count(xs, xs[i]) = Count(ys, xs[i])

SizeOf(c) == SizeOr(c.size, DefaultSize)

\* C5 (Bounds): for every size >= 0, array(g).generate returns an array of length
\* in [0, logsize(size)] and nearray(g).generate one of length in [1, logsize(size) + 1]
ArrayLengthBounds ==
    /\ \A i \in CallsOf("array") :
          /\ ~hist[i].out.thrown
          /\ Len(hist[i].out.val.a) \in 0 .. logsize(SizeOf(hist[i]))
    /\ \A i \in CallsOf("nearray") :
          /\ ~hist[i].out.thrown
          /\ Len(hist[i].out.val.a) \in 1 .. (logsize(SizeOf(hist[i])) + 1)

\* C5 away from size 0: the bounds hold whenever logsize(size) > 0
ArrayLengthBoundsPositive ==
    /\ \A i \in CallsOf("array") :
          logsize(SizeOf(hist[i])) > 0 =>
              /\ ~hist[i].out.thrown
              /\ Len(hist[i].out.val.a) \in 0 .. logsize(SizeOf(hist[i]))
    /\ \A i \in CallsOf("nearray") :
          logsize(SizeOf(hist[i])) > 0 =>
              /\ ~hist[i].out.thrown
              /\ Len(hist[i].out.val.a) \in 1 .. (logsize(SizeOf(hist[i])) + 1)

\* C8: elements(list) with an empty list fails with an error; it never returns
\* undefined
ElementsEmptyFails ==
    \A i \in CallsOf("elements") :
        hist[i].gen.elems = <<>> =>
            /\ hist[i].out.thrown
            /\ hist[i].out.val # Undefined

\* C9 (Permutation): shuffle(xs).generate returns an array with the length and the
\* multiset of elements of xs, and swaps only positions inside the array
ShuffleIsPermutation ==
    \A i \in CallsOf("shuffle") :
        LET xs == hist[i].gen.array
            out == hist[i].out
        IN  /\ ~out.thrown
            /\ out.val.t = "array"
            /\ SameMultiset(xs, out.val.a)
            /\ \A k \in DOMAIN out.idx : 0 <= out.idx[k] /\ out.idx[k] < Len(xs)

\* a shuffle of at least three elements, not all equal, has returned them in
\* another order
ShuffleMoved ==
    \E i \in CallsOf("shuffle") :
        /\ Len(hist[i].gen.array) >= 3
        /\ hist[i].out.val.a # hist[i].gen.array
        /\ hist[i].out.idx # <<>>

\* the empty and the singleton array have been shuffled
ShuffleTrivial ==
    \E i \in CallsOf("shuffle") : Len(hist[i].gen.array) <= 1

----------------------------------------------------------------------------
(* Two runs seeded with the same seed and making the same generate calls *)

\* the calls the two runs make: <<generator, size>>
RunCalls ==
    { <<nat, NoSize>>,
      <<boolean, NoSize>>,
      <<neascii, <<3>>>>,
      <<or(int, sized(array(interval(0, 10)), 7)), NoSize>>,
      <<ntimes(elements(<<Num(1), Num(2), Num(1)>>), 2), NoSize>>,
      <<shuffle(<<Num(1), Num(2), Num(1)>>), NoSize>> }

InitRuns ==
    /\ \E seed \in Seeds : rng = makeRng(seed) /\ rngB = makeRng(seed)
    /\ hist = <<>>
    /\ histB = <<>>
    /\ shr = Idle
    /\ st = Idle
    /\ rec = Idle

\* the first run makes its next call, whichever it is
GenerateA ==
    /\ Len(hist) < MaxCalls
    /\ \E c \in RunCalls, e \in Seeds :
          \E x \in {Generate(c[1], rng, c[2], e)} :
              /\ rng' = x.rng
              /\ hist' = Append(hist, [gen |-> c[1], size |-> c[2], out |-> x])
    /\ UNCHANGED <<rngB, histB, shr, st, rec>>

\* the second run makes the call the first run made at the same position
GenerateB ==
    /\ Len(histB) < Len(hist)
    /\ \E e \in Seeds :
          LET c == hist[Len(histB) + 1]
          IN  \E x \in {Generate(c.gen, rngB, c.size, e)} :
                  /\ rngB' = x.rng
                  /\ histB' = Append(histB, [gen |-> c.gen, size |-> c.size, out |-> x])
    /\ UNCHANGED <<rng, hist, shr, st, rec>>

NextRuns == GenerateA \/ GenerateB

SpecRuns == InitRuns /\ [][NextRuns]_vars

\* C1 (Determinism): two runs that start from makeRng(s) and make the same generate
\* calls produce the same outputs and leave equal RngStates after every draw
Determinism ==
    /\ \A i \in DOMAIN histB :
          /\ histB[i].out.thrown = hist[i].out.thrown
          /\ histB[i].out.val = hist[i].out.val
          /\ histB[i].out.rng = hist[i].out.rng
    /\ Len(histB) = Len(hist) => rngB = rng

\* both runs have made all their calls, and the calls drew from the state
BothRunsDone ==
    /\ Len(hist) = MaxCalls
    /\ Len(histB) = MaxCalls
    /\ hist[1].out.rng # hist[MaxCalls].out.rng

----------------------------------------------------------------------------
(* suchThat: gen.suchThat(pred).generate(rng, size), draw by draw *)

\* the generator filtered and the predicates x => x === c given to suchThat;
\* the generator never returns MaxBound or MaxBound + 1
Filtered == interval(0, MaxBound)
Preds == 0 .. (MaxBound + 1)
Pred(c, v) == v = Num(c)

InitSuchThat ==
    /\ \E seed \in Seeds : rng = makeRng(seed)
    /\ \E c \in Preds :
          st = [pos |-> "loop", gen |-> Filtered, pred |-> c, attempts |-> 0,
                output |-> Undefined]
    /\ rngB = <<>>
    /\ hist = <<>>
    /\ histB = <<>>
    /\ shr = Idle
    /\ rec = Idle

\* one turn of while (true): draw, return the output if pred holds, else go round
\* again.  The source counts nothing; attempts is the number of draws made.
SuchThatDraw ==
    /\ st.pos = "loop"
    /\ st.attempts < MaxAttempts
    /\ \E e \in Seeds :
          \E x \in {Generate(st.gen, rng, NoSize, e)} :
              /\ rng' = x.rng
              /\ st' = [st EXCEPT !.attempts = @ + 1,
                                  !.output = x.val,
                                  !.pos = IF x.thrown THEN "thrown"
                                          ELSE IF Pred(st.pred, x.val) THEN "returned"
                                          ELSE "loop"]
    /\ UNCHANGED <<rngB, hist, histB, shr, rec>>

NextSuchThat == SuchThatDraw

SpecSuchThat == InitSuchThat /\ [][NextSuchThat]_vars

\* C3: suchThat makes at most a bounded number of redraws: after MaxAttempts draws
\* that all failed the predicate the call has ended with an exhaustion failure
SuchThatExhausts ==
    st.attempts >= MaxAttempts => st.pos \in {"returned", "thrown", "exhausted"}

----------------------------------------------------------------------------
(* recursive(genZ, genS).generate(rng, size), call of loop by call of loop *)

genZ == interval(0, 10)
genS(self) == ntimes(self, 1)
chanceGen == interval(0, 3)

\* genS applied k times on top of genZ: what loop returns after k calls that recursed
RECURSIVE Nest(_)
Nest(k) == IF k = 0 THEN genZ ELSE genS(Nest(k - 1))

InitRecursive ==
    /\ \E seed \in Seeds : rng = makeRng(seed)
    /\ \E size \in Sizes :
          rec = [pos |-> "loop", size |-> SizeOr(size, DefaultSize),
                 n |-> logsize(SizeOr(size, DefaultSize)), applied |-> 0,
                 gen |-> genZ, out |-> Ok(Undefined, <<>>)]
    /\ rngB = <<>>
    /\ hist = <<>>
    /\ histB = <<>>
    /\ shr = Idle
    /\ st = Idle

\* loop as it would be without the depth cap: the chance alone ends the recursion
LoopDrawUncapped ==
    /\ rec.pos = "loop"
    /\ \E e \in Seeds :
          \E x \in {Generate(chanceGen, rng, NoSize, e)} :
              /\ rng' = x.rng
              /\ rec' = IF x.val = Num(0)
                        THEN [rec EXCEPT !.pos = "built", !.gen = Nest(rec.applied)]
                        ELSE [rec EXCEPT !.n = @ - 1, !.applied = @ + 1]
    /\ UNCHANGED <<rngB, hist, histB, shr, st>>

\* loop(n): if (n <= 0 || chanceGen.generate(rng) === 0) return genZ;
\* return genS(loop(n - 1)).  The chance is not drawn when n <= 0.  Once genZ is
\* returned, the pending applications of genS build the generator.
LoopBase ==
    /\ rec.pos = "loop"
    /\ rec.n <= 0
    /\ rec' = [rec EXCEPT !.pos = "built", !.gen = Nest(rec.applied)]
    /\ UNCHANGED <<rng, rngB, hist, histB, shr, st>>

LoopDraw ==
    /\ rec.pos = "loop"
    /\ ~(rec.n <= 0)
    /\ \E e \in Seeds :
          \E x \in {Generate(chanceGen, rng, NoSize, e)} :
              /\ rng' = x.rng
              /\ rec' = IF x.val = Num(0)
                        THEN [rec EXCEPT !.pos = "built", !.gen = Nest(rec.applied)]
                        ELSE [rec EXCEPT !.n = @ - 1, !.applied = @ + 1]
    /\ UNCHANGED <<rngB, hist, histB, shr, st>>

\* loop(logsize(size)).generate(rng, size)
GenerateBuilt ==
    /\ rec.pos = "built"
    /\ \E e \in Seeds :
          \E x \in {Generate(rec.gen, rng, <<rec.size>>, e)} :
              /\ rng' = x.rng
              /\ rec' = [rec EXCEPT !.pos = "done", !.out = x]
    /\ UNCHANGED <<rngB, hist, histB, shr, st>>

NextRecursive == LoopBase \/ LoopDraw \/ GenerateBuilt

SpecRecursive == InitRecursive /\ [][NextRecursive]_vars

\* the number of applications of genS a generator consists of, and what they wrap
RECURSIVE Depth(_)
Depth(g) == IF g.k = "ntimes" THEN 1 + Depth(g.gen) ELSE 0
RECURSIVE Innermost(_)
Innermost(g) == IF g.k = "ntimes" THEN Innermost(g.gen) ELSE g

RecursiveDepthBounded ==
    /\ rec.applied <= logsize(rec.size)
    /\ rec.pos \in {"built", "done"} =>
          /\ Depth(rec.gen) = rec.applied
          /\ Innermost(rec.gen) = genZ
          /\ rec.applied < logsize(rec.size) \/ rec.n = 0
    /\ rec.pos = "done" => ~rec.out.thrown

\* what is left of the call: the calls of loop still possible, then the run of
\* the generator built
RecVariant ==
    CASE rec.pos = "loop" -> rec.n + 2
      [] rec.pos = "built" -> 1
      [] rec.pos = "done" -> 0

\* C10 (Recursion termination): recursive(genZ, genS).generate terminates (every
\* step of the call lowers a natural number), with genS applied at most
\* logsize(size) times and genZ innermost, whatever is drawn
RecursiveTerminates ==
    /\ []RecursiveDepthBounded
    /\ [][RecVariant' < RecVariant /\ RecVariant' >= 0]_vars

\* the depth counter has reached 0 after logsize(size) > 1 applications of genS,
\* and the generator built has been run
RecursiveFullDepth ==
    /\ rec.pos = "done"
    /\ rec.n = 0
    /\ rec.applied = logsize(rec.size)
    /\ rec.applied > 1

----------------------------------------------------------------------------
(* Arbitraries and the shrink strategies of namespace `smaller` *)

\* x | 0: a number in [0, 2^32) as the signed 32-bit integer of the same bits
ToInt32(x) == IF "hi" \in DOMAIN x THEN Word(x.hi, x.lo) ELSE x.n

\* smaller.nat: do { i >>= 1; output.push(i); } while (i > 0);
RECURSIVE natLoop(_, _)
natLoop(i, output) ==
    With(i \div 2, LAMBDA i1 :
    With(Append(output, Num(i1)), LAMBDA pushed :
         IF i1 > 0 THEN natLoop(i1, pushed) ELSE pushed))

smaller_nat(x) == natLoop(ToInt32(x), <<>>)

\* x.substr(0, i)
substr0(x, i) == Str(SubSeq(x.s, 1, i))

\* smaller.nestring: do { i >>= 1; output.push(x.substr(0, i)); } while (i > 1);
RECURSIVE nestringLoop(_, _, _)
nestringLoop(x, i, output) ==
    With(i \div 2, LAMBDA i1 :
    With(Append(output, substr0(x, i1)), LAMBDA pushed :
         IF i1 > 1 THEN nestringLoop(x, i1, pushed) ELSE pushed))

smaller_nestring(x) == nestringLoop(x, Len(x.s), <<>>)

\* smaller.string: do { i >>= 1; output.push(x.substr(0, i)); } while (i > 0);
RECURSIVE stringLoop(_, _, _)
stringLoop(x, i, output) ==
    With(i \div 2, LAMBDA i1 :
    With(Append(output, substr0(x, i1)), LAMBDA pushed :
         IF i1 > 0 THEN stringLoop(x, i1, pushed) ELSE pushed))

smaller_string(x) == stringLoop(x, Len(x.s), <<>>)

\* smaller.array: do { i >>= 1; const xs2 = xs.slice(); output.push(xs2); } while (i > 0);
\* the element strategy shr is not used
RECURSIVE arrayLoop(_, _, _)
arrayLoop(xs, i, output) ==
    With(i \div 2, LAMBDA i1 :
    With(Append(output, Arr(xs.a)), LAMBDA pushed :
         IF i1 > 0 THEN arrayLoop(xs, i1, pushed) ELSE pushed))

smaller_array(xs, elemShrink) == arrayLoop(xs, Len(xs.a), <<>>)

\* new Arbitrary(generator, shrink)
Arbitrary(generator, shrink) == [generator |-> generator, shrink |-> shrink]

arb_nat == Arbitrary(nat, "smaller.nat")
arb_ascii == Arbitrary(ascii, "smaller.string")
arb_neascii == Arbitrary(neascii, "smaller.nestring")
\* an arbitrary of arrays, shrunk with smaller.array over smaller.nat
arb_array == Arbitrary(array(interval(0, MaxBound)), "smaller.array")

Arbitraries == {arb_nat, arb_ascii, arb_neascii, arb_array}

\* arbitrary.shrink(x)
Shrink(a, x) ==
    CASE a.shrink = "smaller.nat" -> smaller_nat(x)
      [] a.shrink = "smaller.string" -> smaller_string(x)
      [] a.shrink = "smaller.nestring" -> smaller_nestring(x)
      [] a.shrink = "smaller.array" -> smaller_array(x, "smaller.nat")

----------------------------------------------------------------------------
(* The runner's use of an arbitrary: one failing trial, then shrinking *)

InitShrink ==
    /\ \E seed \in Seeds : rng = makeRng(seed)
    /\ rngB = <<>>
    /\ hist = <<>>
    /\ histB = <<>>
    /\ shr = Idle
    /\ st = Idle
    /\ rec = Idle

\* the runner generates the input of a trial, and the trial fails
Trial ==
    /\ shr.pos = "idle"
    /\ \E a \in Arbitraries, size \in Sizes, e \in Seeds :
          \E x \in {Generate(a.generator, rng, size, e)} :
              /\ rng' = x.rng
              /\ shr' = IF x.thrown THEN [pos |-> "thrown"]
                        ELSE [pos |-> "failing", arb |-> a, value |-> x.val, cands |-> <<>>]
    /\ UNCHANGED <<rngB, hist, histB, st, rec>>

\* the runner calls shrink on the failing value
ShrinkFailing ==
    /\ shr.pos = "failing"
    /\ shr' = [shr EXCEPT !.pos = "shrunk", !.cands = Shrink(shr.arb, shr.value)]
    /\ UNCHANGED <<rng, rngB, hist, histB, st, rec>>

\* a candidate still fails: it becomes the failing value
Replace ==
    /\ shr.pos = "shrunk"
    /\ \E i \in DOMAIN shr.cands :
          shr' = [shr EXCEPT !.pos = "failing", !.value = shr.cands[i], !.cands = <<>>]
    /\ UNCHANGED <<rng, rngB, hist, histB, st, rec>>

\* no candidate fails: the failing value is reported as minimal
Minimal ==
    /\ shr.pos = "shrunk"
    /\ shr' = [shr EXCEPT !.pos = "minimal"]
    /\ UNCHANGED <<rng, rngB, hist, histB, st, rec>>

NextShrink == Trial \/ ShrinkFailing \/ Replace \/ Minimal

SpecShrink == InitShrink /\ [][NextShrink]_vars

----------------------------------------------------------------------------
(* Properties of the shrink strategies *)

IsBig(v) == "hi" \in DOMAIN v

\* c is smaller than v: by absolute value for numbers, by length for strings
\* and arrays
Smaller(c, v) ==
    CASE v.t = "number" ->
            IF IsBig(v) THEN ~IsBig(c) ELSE ~IsBig(c) /\ Abs(c.n) < Abs(v.n)
      [] v.t = "string" -> Len(c.s) < Len(v.s)
      [] v.t = "array" -> Len(c.a) < Len(v.a)

\* C2: the candidates of every built-in strategy never contain the value
\* shrunk, and each candidate is strictly smaller than it by a well-founded
\* measure (so that a runner replacing the failing value by a candidate
\* cannot go on forever).
ShrinkContract ==
    shr.pos = "shrunk" =>
        \A i \in DOMAIN shr.cands :
            /\ shr.cands[i] # shr.value
            /\ Smaller(shr.cands[i], shr.value)

\* the halves <<hi, lo>> of floor(x / 2), floor(x / 4), ..., 0 for x = hi * 2^16 + lo
RECURSIVE Halvings(_, _)
Halvings(hi, lo) ==
    With(<<hi \div 2, ((hi % 2) * TwoPow15) + (lo \div 2)>>, LAMBDA h :
         <<Number(h[1], h[2])>>
             \o (IF h[1] = 0 /\ h[2] = 0 THEN <<>> ELSE Halvings(h[1], h[2])))

HalvingsOf(x) ==
    IF IsBig(x) THEN Halvings(x.hi, x.lo) ELSE Halvings(x.n \div TwoPow16, x.n % TwoPow16)

\* C6: for every natural number x in [0, 2^32), smaller.nat(x) is floor(x / 2),
\* floor(x / 4), ..., down to and including 0, and every element is a
\* non-negative integer.
NatShrinkHalves ==
    (/\ shr.pos = "shrunk"
     /\ shr.arb = arb_nat
     /\ (IsBig(shr.value) \/ shr.value.n >= 0))
    => /\ shr.cands = HalvingsOf(shr.value)
       /\ \A i \in DOMAIN shr.cands : IsBig(shr.cands[i]) \/ shr.cands[i].n >= 0

\* C7: for every string x of length >= 1, the candidates of smaller.nestring
\* are prefixes of x, and none of them is the empty string.
NestringNeverEmpty ==
    (/\ shr.pos = "shrunk"
     /\ shr.arb = arb_neascii
     /\ Len(shr.value.s) >= 1)
    => \A i \in DOMAIN shr.cands :
           /\ shr.cands[i] = substr0(shr.value, Len(shr.cands[i].s))
           /\ Len(shr.cands[i].s) >= 1

================================================================================
